---- MODULE Spec2Model ----
(***************************************************************************)
(* PublicInboxGitHelper (src/index.js, lines 75-291): mirroring of the Git *)
(* mailing list archive (public-inbox, one commit per mail) onto the pull  *)
(* requests the mails belong to.                                           *)
(*                                                                         *)
(* Modelled: the notes store (gggNotes), the archive branch, the helper's  *)
(* in-memory state, one processMails() invocation line by line             *)
(* (lineHandler, mboxHandler), the calls to the code-hosting glue, the     *)
(* failures of the collaborators and the death of the process.             *)
(***************************************************************************)
EXTENDS Integers, Sequences, FiniteSets, TLC

(* ------------------------------ bounds --------------------------------- *)

\* the number of commits the archive branch grows to
MaxCommits == 2

\* the number of failures (throwing collaborator calls, process deaths)
MaxFaults == 1

\* the number of lines of a diff written out line by line
MaxLines == 3

(* ----------------------------- constants ------------------------------- *)

\* JavaScript's undefined
undefined == "undefined"

stateKey == "git@vger.kernel.org <-> GitGitGadget"

\* Revisions of the archive's master branch are numbered by the commits on
\* it; 0 is cf3590b3a1ce08a52b01142307b8fcc089acb6a6, the commit just before
\* the first mail of interest.
firstRevision == 0

\* the code point that ends the header of a Git object
NUL == "\\0"

(* ------------------------------ hashKey -------------------------------- *)

\* UTF-8 length of one character; the characters of the model that are not
\* ASCII are listed with their lengths
TwoByteChars == {"é"}

Utf8LengthOfCodeUnit(ch) == 1

Utf8Length(ch) == IF ch \in TwoByteChars THEN 2 ELSE 1

RECURSIVE byteLength(_)
byteLength(s) ==
    IF Len(s) = 0 THEN 0
    ELSE Utf8Length(SubSeq(s, 1, 1)) + byteLength(SubSeq(s, 2, Len(s)))

\* SHA-1 is taken to be collision free: the digest of a byte string is the
\* byte string, tagged
sha1hex(bytes) == <<"sha1", bytes>>

hashKey(key) ==
    sha1hex("blob " \o ToString(byteLength(key) + 1) \o NUL \o key \o "\n")

(* ------------------------------- data ---------------------------------- *)

\* IMailMetadata, as processMails writes it (lines 233-238)
MailMetadata(messageID, pullRequestURL, originalCommit, issueCommentId) ==
    [messageID |-> messageID, pullRequestURL |-> pullRequestURL,
     originalCommit |-> originalCommit, issueCommentId |-> issueCommentId]

\* IGitMailingListMirrorState (lines 87-89), and {}: the state that has no
\* latestRevision
MirrorState(latestRevision) == [latestRevision |-> latestRevision]

emptyObject == <<>>

\* obj.name of a JavaScript object: undefined when the object has no such
\* property
Field(obj, name) == IF name \in DOMAIN obj THEN obj[name] ELSE undefined

\* The text of a mail is a sequence of lines; a line is <<header, value>>.
MessageIDLine(messageID) == <<"Message-ID", messageID>>
ReferencesLine(references) == <<"References", references>>
TextLine == <<"", "text">>

Mail(messageID, references) ==
    <<MessageIDLine(messageID)>>
    \o (IF references = <<>> THEN <<>> ELSE <<ReferencesLine(references)>>)

\* a mail without a Message-ID header
MalformedMail == <<TextLine>>

\* A line of `git log -p` is <<first characters, rest>>: a hunk header is
\* "@@ " and the added-line count the regular expression of line 248 captures,
\* an added line is "+" and the line added, any other line is "d" and the
\* rest of its text.
HunkHeader(added) == <<"@@ ", added>>
AddedLine(text) == <<"+", text>>
OtherLine == <<"d", <<"", "iff --git">>>>

\* The patch of the commit that adds one mail as one new file.
RECURSIVE AddedLines(_)
AddedLines(mail) ==
    IF mail = <<>> THEN <<>>
    ELSE <<AddedLine(Head(mail))>> \o AddedLines(Tail(mail))

\* A commit of the archive is the mail it adds as one new file, or, for the
\* commits that do something else, its diff line by line.
Diff(lines) == <<<<"diff", "">>>> \o lines

Patch(commit) ==
    IF commit # <<>> /\ commit[1][1] = "diff" THEN Tail(commit)
    ELSE <<OtherLine, HunkHeader(Len(commit))>> \o AddedLines(commit)

(* ------------------------------ state ---------------------------------- *)

VARIABLES
    archive,    \* master of public-inbox/git: the mail each commit adds,
                \* or the diff of the commit
    pool,       \* the mails that may arrive on the list
    notes,      \* gggNotes: digest of the key -> the object stored
    pc,         \* "none": no helper; "idle": a helper, not in processMails;
                \* "scan": processMails is consuming the output of git log
    state,      \* this.state of the helper
    keys,       \* processMails: keys
    prFilter,   \* processMails: prFilter, undefined or the URL it accepts
    head,       \* processMails: head
    pos,        \* the next line of the output of git log
    buffer,     \* processMails: buffer, the lines it holds
    counter,    \* processMails: counter
    calls,      \* the calls made to githubGlue, in order
    emitted,    \* what became of the last mail the line handler completed
    result,     \* how the last processMails() ended
    faults      \* the failures so far

vars == <<archive, pool, notes, pc, state, keys, prFilter, head, pos, buffer,
          counter, calls, emitted, result, faults>>

(* --------------------------- collaborators ----------------------------- *)

\* gggNotes.get(key) is not undefined
gggNotesHas(key) == hashKey(key) \in DOMAIN notes

\* gggNotes.get(key), when it is not undefined
gggNotesGet(key) == notes[hashKey(key)]

\* the notes after gggNotes.set(key, value)
gggNotesSet(key, value) ==
    [d \in DOMAIN notes \cup {hashKey(key)} |->
        IF d = hashKey(key) THEN value ELSE notes[d]]

\* the paths `git ls-tree -r <notesRef>:` lists, without their slashes
lsTree == DOMAIN notes

\* revParse("master", publicInboxGitDir)
revParse == Len(archive)

\* the output of `git log -p --reverse from..to`
RECURSIVE gitLog(_, _)
gitLog(from, to) ==
    IF from >= to THEN <<>>
    ELSE Patch(archive[from + 1]) \o gitLog(from + 1, to)

\* parseMBoxMessageIDAndReferences(mbox): throws when the mail has no
\* Message-ID
HeaderLines(mbox, header) == SelectSeq(mbox, LAMBDA l : l[1] = header)

parseThrows(mbox) == HeaderLines(mbox, "Message-ID") = <<>>

parseMBoxMessageIDAndReferences(mbox) ==
    [messageID |-> HeaderLines(mbox, "Message-ID")[1][2],
     references |-> IF HeaderLines(mbox, "References") = <<>> THEN <<>>
                    ELSE HeaderLines(mbox, "References")[1][2]]

\* the id the code-hosting service gives the next comment
newCommentId == "i" \o ToString(Len(calls) + 1)

(* ----------------------------- processMails ---------------------------- *)

\* seen (lines 166-168)
seen(messageID) == hashKey(messageID) \in keys

\* reference.match(/^pull/) (line 186)
matchesPull(reference) ==
    Len(reference) >= 4 /\ SubSeq(reference, 1, 4) = "pull"

\* prFilter && !prFilter(url) (line 182)
vetoedNever(pullRequestURL) == FALSE

vetoed(pullRequestURL) == prFilter # undefined /\ prFilter # pullRequestURL

\* the three locals of mboxHandler (lines 175-177)
Target(pullRequestURL, originalCommit, issueCommentId) ==
    [pullRequestURL |-> pullRequestURL, originalCommit |-> originalCommit,
     issueCommentId |-> issueCommentId]

noTarget == Target(undefined, undefined, undefined)

\* one round of the loop over the known references (lines 179-195)
pickCandidateByField(t, reference) ==
    LET data == gggNotesGet(reference)
        commit == IF matchesPull(reference) THEN undefined
                  ELSE Field(data, "originalCommit")
    IN  IF \/ ~gggNotesHas(reference)
           \/ Field(data, "pullRequestURL") = undefined
        THEN t
        ELSE IF vetoed(data.pullRequestURL)
        THEN t
        ELSE Target(IF t.pullRequestURL = undefined THEN data.pullRequestURL
                    ELSE t.pullRequestURL,
                    IF t.originalCommit = undefined THEN commit
                    ELSE t.originalCommit,
                    IF t.issueCommentId = undefined
                    THEN Field(data, "issueCommentId")
                    ELSE t.issueCommentId)

pickCandidate(t, reference) ==
    LET data == gggNotesGet(reference)
        commit == IF matchesPull(reference) THEN undefined
                  ELSE Field(data, "originalCommit")
    IN  IF \/ ~gggNotesHas(reference)
           \/ Field(data, "pullRequestURL") = undefined
        THEN t
        ELSE IF vetoed(data.pullRequestURL)
        THEN t
        ELSE IF \/ t.pullRequestURL = undefined
                \/ (t.originalCommit = undefined /\ commit # undefined)
                \/ (t.issueCommentId = undefined
                    /\ Field(data, "issueCommentId") # undefined)
        THEN Target(data.pullRequestURL, commit, Field(data, "issueCommentId"))
        ELSE t

\* the loop (lines 178-196)
RECURSIVE resolveLoop(_, _)
resolveLoop(t, references) ==
    IF references = <<>> THEN t
    ELSE resolveLoop(pickCandidate(t, Head(references)), Tail(references))

resolve(references) == resolveLoop(noTarget, SelectSeq(references, seen))

\* the call chosen for a target (lines 214-231): the function of githubGlue
\* and its second argument
deliveryCallCommitFirst(t) ==
    IF t.originalCommit # undefined
    THEN <<"addPRCommitComment", t.originalCommit>>
    ELSE IF t.issueCommentId # undefined
    THEN <<"addPRCommentReply", t.issueCommentId>>
    ELSE <<"addPRComment", undefined>>

deliveryCall(t) ==
    IF t.issueCommentId # undefined
    THEN <<"addPRCommentReply", t.issueCommentId>>
    ELSE IF t.originalCommit # undefined
    THEN <<"addPRCommitComment", t.originalCommit>>
    ELSE <<"addPRComment", undefined>>

\* the issueCommentId recorded after a call that returned id (lines 218, 223)
recordedCommentIdOfTarget(t, id) == t.issueCommentId

recordedCommentId(t, id) ==
    IF deliveryCall(t)[1] = "addPRComment" THEN t.issueCommentId ELSE id

Call(fn, pullRequestURL, arg, messageID, ok, id) ==
    [fn |-> fn, pullRequestURL |-> pullRequestURL, arg |-> arg,
     messageID |-> messageID, ok |-> ok, id |-> id]

Frame(messageID, exit, t) ==
    [messageID |-> messageID, exit |-> exit, target |-> t]

noFrame == Frame(undefined, "none", noTarget)

\* what the collaborators may do to one mboxHandler: all of them succeed,
\* gggNotes.get throws, the call to githubGlue throws, gggNotes.set throws, or
\* the process dies between the call to githubGlue and gggNotes.set
Outcomes == {"ok", "getThrows", "callThrows", "setThrows", "dies"}

\* the early return of lines 172-174
skipNever(messageID) == FALSE

skip(messageID) == seen(messageID)

\* the early return of lines 197-199
unrelatedNever(t) == FALSE

unrelated(t) == t.pullRequestURL = undefined

\* the notes, the keys, the calls and the frame a handler leaves
After(n, k, c, f) == [notes |-> n, keys |-> k, calls |-> c, emitted |-> f]

\* keys.add(hashKey(messageID)) (line 241)
keysAddNothing(messageID) == keys

keysAdd(messageID) == keys \cup {hashKey(messageID)}

\* mboxHandler (lines 170-242) under the outcome env
mboxHandler(messageID, references, env) ==
    LET t == resolve(references)
        dc == deliveryCall(t)
        id == IF env = "callThrows" THEN undefined ELSE newCommentId
        called == Append(calls, Call(dc[1], t.pullRequestURL, dc[2], messageID,
                                     env # "callThrows", id))
    IN  IF skip(messageID)
        THEN After(notes, keys, calls, Frame(messageID, "seen", noTarget))
        ELSE IF env = "getThrows"
        THEN After(notes, keys, calls, Frame(messageID, "getThrew", noTarget))
        ELSE IF unrelated(t)
        THEN After(notes, keys, calls, Frame(messageID, "unrelated", t))
        ELSE IF env = "callThrows"
        THEN After(notes, keys, called, Frame(messageID, "callThrew", t))
        ELSE IF env = "dies"
        THEN After(notes, keys, called, Frame(messageID, "died", t))
        ELSE IF env = "setThrows"
        THEN After(notes, keys, called, Frame(messageID, "setThrew", t))
        ELSE After(gggNotesSet(messageID,
                        MailMetadata(messageID, t.pullRequestURL,
                                     t.originalCommit, recordedCommentId(t, id))),
                   keysAdd(messageID),
                   called,
                   Frame(messageID, "recorded", t))

\* whether mboxHandler gets as far as the call that env makes fail
reaches(messageID, references, env) ==
    CASE env = "ok" -> TRUE
      [] env = "getThrows" ->
            ~skip(messageID) /\ SelectSeq(references, seen) # <<>>
      [] OTHER -> ~skip(messageID) /\ ~unrelated(resolve(references))

\* the try block of lines 258-262 on the mail in buf
tryBlock(buf, env) ==
    IF parseThrows(buf)
    THEN After(notes, keys, calls, Frame(undefined, "parseThrew", noTarget))
    ELSE mboxHandler(parseMBoxMessageIDAndReferences(buf).messageID,
                     parseMBoxMessageIDAndReferences(buf).references, env)

tryReaches(buf, env) ==
    IF parseThrows(buf) THEN env = "ok"
    ELSE reaches(parseMBoxMessageIDAndReferences(buf).messageID,
                 parseMBoxMessageIDAndReferences(buf).references, env)

\* the exits of the try block that are exceptions
Thrown == {"parseThrew", "getThrew", "callThrew", "setThrew"}

\* the catch of lines 263-265: it catches whatever is thrown
catchesParseErrors(exit) == exit = "parseThrew"

catchesStorageErrors(exit) == exit \in {"getThrew", "setThrew"}

catches(exit) == TRUE

\* the output of git log that this processMails consumes (lines 282-284)
stream == gitLog(state.latestRevision, head)

\* after the process died: nothing of the helper is left
Dead ==
    /\ pc' = "none"
    /\ state' = undefined
    /\ keys' = {}
    /\ prFilter' = undefined
    /\ head' = firstRevision
    /\ pos' = 0
    /\ buffer' = <<>>
    /\ counter' = 0

\* processMails has returned or thrown: its locals are gone
Returned ==
    /\ pc' = "idle"
    /\ keys' = {}
    /\ prFilter' = undefined
    /\ head' = firstRevision
    /\ pos' = 0
    /\ buffer' = <<>>
    /\ counter' = 0

\* line.substr(1) (line 254)
substr0(line) == line

substr1(line) == line[2]

\* lineHandler (lines 246-267) on the next line of the stream
lineHandler ==
    /\ pc = "scan"
    /\ pos <= Len(stream)
    /\ LET line == stream[pos]
           buf == Append(buffer, substr1(line))
       IN  IF line[1] = "@@ "
           THEN /\ counter' = line[2]
                /\ buffer' = <<>>
                /\ pos' = pos + 1
                /\ UNCHANGED <<archive, pool, notes, pc, state, keys, prFilter,
                               head, calls, emitted, result, faults>>
           ELSE IF counter # 0
           THEN IF counter - 1 # 0
                THEN /\ buffer' = buf
                     /\ counter' = counter - 1
                     /\ pos' = pos + 1
                     /\ UNCHANGED <<archive, pool, notes, pc, state, keys,
                                    prFilter, head, calls, emitted, result,
                                    faults>>
                ELSE \E env \in Outcomes :
                     LET after == tryBlock(buf, env)
                         exit == after.emitted.exit
                     IN  /\ tryReaches(buf, env)
                         /\ env # "ok" => faults < MaxFaults
                         /\ faults' = IF env = "ok" THEN faults ELSE faults + 1
                         /\ notes' = after.notes
                         /\ calls' = after.calls
                         /\ emitted' = after.emitted
                         /\ IF exit = "died"
                            THEN Dead /\ UNCHANGED <<archive, pool, result>>
                            ELSE IF exit \in Thrown /\ ~catches(exit)
                            THEN /\ Returned
                                 /\ result' = "threw"
                                 /\ UNCHANGED <<archive, pool, state>>
                            ELSE /\ keys' = after.keys
                                 /\ buffer' = buf
                                 /\ counter' = 0
                                 /\ pos' = pos + 1
                                 /\ UNCHANGED <<archive, pool, pc, state,
                                                prFilter, head, result>>
           ELSE /\ pos' = pos + 1
                /\ UNCHANGED <<archive, pool, notes, pc, state, keys, prFilter,
                               head, buffer, counter, calls, emitted, result,
                               faults>>

\* PublicInboxGitHelper.get (lines 92-99): a process starts
get ==
    /\ pc = "none"
    /\ pc' = "idle"
    /\ state' = IF ~gggNotesHas(stateKey)
                THEN emptyObject
                ELSE gggNotesGet(stateKey)
    /\ UNCHANGED <<archive, pool, notes, keys, prFilter, head, pos, buffer,
                   counter, calls, emitted, result, faults>>

\* the pull requests a caller may scope a run to
PullRequestURLs == {"pr1", "pr2"}

\* the test of line 278
upToDateNever(latestRevision) == FALSE

upToDate(latestRevision) == latestRevision = revParse

\* the revision the scan starts from (lines 269-276): the first commit of
\* the archive when the state has none
startRevisionAlwaysFirst(st) == firstRevision

startRevision(st) ==
    IF "latestRevision" \notin DOMAIN st THEN firstRevision
    ELSE st.latestRevision

\* processMails up to the start of git log (lines 158-168, 244-245, 269-284)
processMails(filter) ==
    /\ pc = "idle"
    /\ LET latestRevision == startRevision(state)
       IN  /\ state' = MirrorState(latestRevision)
           /\ IF upToDate(latestRevision)
              THEN /\ result' = "false"
                   /\ UNCHANGED <<pc, keys, prFilter, head, pos, buffer,
                                  counter, emitted>>
              ELSE /\ result' = "pending"
                   /\ pc' = "scan"
                   /\ keys' = lsTree
                   /\ prFilter' = filter
                   /\ head' = revParse
                   /\ pos' = 1
                   /\ buffer' = <<>>
                   /\ counter' = 0
                   /\ emitted' = noFrame
    /\ UNCHANGED <<archive, pool, notes, calls, faults>>

\* the revision line 286 stores
scannedNotStored == state.latestRevision

scanned == head

\* processMails after git log has ended (lines 286-289); written is whether
\* gggNotes.set succeeds
processMailsEnd(written) ==
    /\ pc = "scan"
    /\ pos > Len(stream)
    /\ state' = MirrorState(scanned)
    /\ IF written
       THEN /\ notes' = gggNotesSet(stateKey, MirrorState(scanned))
            /\ result' = "true"
            /\ UNCHANGED faults
       ELSE /\ faults < MaxFaults
            /\ faults' = faults + 1
            /\ result' = "threw"
            /\ UNCHANGED notes
    /\ Returned
    /\ UNCHANGED <<archive, pool, calls, emitted>>

\* the process ends after processMails has returned or thrown; the next one
\* starts with get
exit ==
    /\ pc = "idle"
    /\ Dead
    /\ UNCHANGED <<archive, pool, notes, calls, emitted, result, faults>>

\* the process dies during a scan
die ==
    /\ pc = "scan"
    /\ faults < MaxFaults
    /\ faults' = faults + 1
    /\ Dead
    /\ UNCHANGED <<archive, pool, notes, calls, emitted, result>>

\* a mail arrives on the list: public-inbox commits it to master. The range
\* of a scan is fixed when it resolves head, so a mail that arrives during a
\* scan is taken to arrive after it.
commit ==
    /\ pc # "scan"
    /\ Len(archive) < MaxCommits
    /\ \E mail \in pool : archive' = Append(archive, mail)
    /\ UNCHANGED <<pool, notes, pc, state, keys, prFilter, head, pos, buffer,
                   counter, calls, emitted, result, faults>>

(* ------------------------------- Init ---------------------------------- *)

\* The notes GitGitGadget wrote when it sent the patch series of pull request
\* pr1: the cover letter, recorded with the tip commit, and one patch.
sentNotes ==
    LET cover == MailMetadata("pull.1", "pr1", "c0", undefined)
        patch == MailMetadata("p1", "pr1", "c1", undefined)
    IN  [d \in {hashKey("pull.1"), hashKey("p1")} |->
            IF d = hashKey("pull.1") THEN cover ELSE patch]

\* the mails of the list: replies in the thread of pr1, a mail of another
\* thread and a mail without Message-ID
listMails ==
    { Mail("m1", <<"pull.1">>),
      Mail("m2", <<"pull.1", "p1">>),
      Mail("m3", <<"m2">>),
      Mail("u1", <<"zz", stateKey>>),
      MalformedMail }

Start ==
    /\ archive = <<>>
    /\ pc = "none"
    /\ state = undefined
    /\ keys = {}
    /\ prFilter = undefined
    /\ head = firstRevision
    /\ pos = 0
    /\ buffer = <<>>
    /\ counter = 0
    /\ calls = <<>>
    /\ emitted = noFrame
    /\ result = "none"
    /\ faults = 0

Init ==
    /\ Start
    /\ pool = listMails
    /\ notes = sentNotes

Next ==
    \/ get
    \/ \E filter \in {undefined} \cup PullRequestURLs : processMails(filter)
    \/ lineHandler
    \/ \E written \in BOOLEAN : processMailsEnd(written)
    \/ exit
    \/ die
    \/ commit

Spec == Init /\ [][Next]_vars

\* The resolution of a reply to several mails of one thread: the notes hold
\* a cover letter and three mails of pull request pr1, known by the URL alone,
\* with a comment id, and with a commit; the mail that arrives refers to up to
\* three of them in some order.
threadNotes ==
    LET record(k) ==
            CASE k = "pull.1" -> MailMetadata(k, "pr1", "c0", undefined)
              [] k = "a" -> MailMetadata(k, "pr1", undefined, undefined)
              [] k = "b" -> MailMetadata(k, "pr1", undefined, "i0")
              [] k = "c" -> MailMetadata(k, "pr1", "c1", undefined)
        key(d) == CHOOSE k \in {"pull.1", "a", "b", "c"} : hashKey(k) = d
    IN  [d \in {hashKey(k) : k \in {"pull.1", "a", "b", "c"}} |-> record(key(d))]

threadReferences ==
    LET ids == {"pull.1", "a", "b", "c"}
    IN  {<<x>> : x \in ids}
        \cup {r \in {<<x, y>> : x \in ids, y \in ids} : r[1] # r[2]}
        \cup {r \in {<<x, y, z>> : x \in ids, y \in ids, z \in ids} :
                  r[1] # r[2] /\ r[1] # r[3] /\ r[2] # r[3]}

InitMerge ==
    /\ Start
    /\ \E references \in threadReferences : pool = {Mail("m1", references)}
    /\ notes = threadNotes

SpecMerge == InitMerge /\ [][Next]_vars

\* The resolution of a reply to mails of two pull requests: the notes hold a
\* mail of pr1 known by the URL alone, and two mails of pr2, one with a comment
\* id and one with a commit; the mail that arrives refers to up to three of
\* them in some order.
crossNotes ==
    LET record(k) ==
            CASE k = "x" -> MailMetadata(k, "pr1", undefined, undefined)
              [] k = "y" -> MailMetadata(k, "pr2", undefined, "i0")
              [] k = "z" -> MailMetadata(k, "pr2", "c2", undefined)
        key(d) == CHOOSE k \in {"x", "y", "z"} : hashKey(k) = d
    IN  [d \in {hashKey(k) : k \in {"x", "y", "z"}} |-> record(key(d))]

crossReferences ==
    LET ids == {"x", "y", "z"}
    IN  {<<a>> : a \in ids}
        \cup {r \in {<<a, b>> : a \in ids, b \in ids} : r[1] # r[2]}
        \cup {r \in {<<a, b, c>> : a \in ids, b \in ids, c \in ids} :
                  r[1] # r[2] /\ r[1] # r[3] /\ r[2] # r[3]}

InitCross ==
    /\ Start
    /\ \E references \in crossReferences : pool = {Mail("m1", references)}
    /\ notes = crossNotes

SpecCross == InitCross /\ [][Next]_vars

\* The digests of keys of several lengths: the notes hold records under the
\* empty key, an ASCII key and a key of one two-byte character; the mail that
\* arrives has an ASCII Message-ID or one with a two-byte character and
\* refers to one of the three.
hashedKeys == {"", "pull.1", "é"}

hashedNotes ==
    LET key(d) == CHOOSE k \in hashedKeys : hashKey(k) = d
    IN  [d \in {hashKey(k) : k \in hashedKeys} |->
            MailMetadata(key(d), "pr1", undefined, undefined)]

InitHash ==
    /\ Start
    /\ \E messageID \in {"m1", "mé"}, reference \in hashedKeys :
          pool = {Mail(messageID, <<reference>>)}
    /\ notes = hashedNotes

SpecHash == InitHash /\ [][Next]_vars

\* The reconstruction of mails from diffs of any shape: the commits of the
\* archive have a diff of up to MaxLines lines, each a hunk header with an
\* added-line count of 0, 1 or 2, a line that adds the Message-ID header of a
\* mail, or a line that is neither.
diffLines ==
    {HunkHeader(0), HunkHeader(1), HunkHeader(2),
     AddedLine(MessageIDLine("m1")), OtherLine}

diffs == UNION {[1..n -> diffLines] : n \in 1..MaxLines}

InitLines ==
    /\ Start
    /\ \E lines \in diffs : pool = {Diff(lines)}
    /\ notes = sentNotes

SpecLines == InitLines /\ [][Next]_vars

(* ---------------------------- properties ------------------------------- *)

\* the cursor of the helper and the cursor in the notes
cursorOf(st) ==
    IF "latestRevision" \in DOMAIN st THEN st.latestRevision
    ELSE firstRevision

cursor == cursorOf(state)

persistedIn(n) ==
    IF hashKey(stateKey) \in DOMAIN n THEN n[hashKey(stateKey)].latestRevision
    ELSE firstRevision

persisted == persistedIn(notes)

\* the next line completes a mail: the line handler runs its try block on it
Completing ==
    /\ pc = "scan"
    /\ pos <= Len(stream)
    /\ stream[pos][1] # "@@ "
    /\ counter = 1

completed == Append(buffer, stream[pos][2])

\* the next line completes a mail that parses: mboxHandler is called with it
Handing == Completing /\ ~parseThrows(completed)

handed == parseMBoxMessageIDAndReferences(completed)

\* the calls with which a mail was delivered
Deliveries(messageID) ==
    {i \in 1..Len(calls) : calls[i].ok /\ calls[i].messageID = messageID}

\* the commits that add a mail with this Message-ID
Arrivals(messageID) ==
    {i \in 1..Len(archive) :
        /\ ~parseThrows(archive[i])
        /\ parseMBoxMessageIDAndReferences(archive[i]).messageID = messageID}

\* C1: a mail handed to mboxHandler whose digest is among the keys causes no
\* call to githubGlue and no write to the notes.
C1_KnownMailIsSkipped ==
    [][(Handing /\ hashKey(handed.messageID) \in keys)
        => (calls' = calls /\ notes' = notes)]_vars

\* a mail that was delivered and recorded arrived again and was skipped
C1_Witness ==
    /\ emitted.exit = "seen"
    /\ Deliveries(emitted.messageID) # {}
    /\ Cardinality(Arrivals(emitted.messageID)) = 2

\* C2: no Message-ID is delivered by more than one successful call, whatever
\* the scans, failures and restarts.
C2_AtMostOneDelivery ==
    \A i, j \in 1..Len(calls) :
        (calls[i].ok /\ calls[j].ok /\ calls[i].messageID = calls[j].messageID)
            => i = j

\* C3: processMails called when master is at the cursor of the helper returns
\* false and calls githubGlue, writes the notes and reads git log not at all.
C3_NothingNewNothingDone ==
    [][(pc = "idle" /\ cursor = revParse /\ pc' # "none" /\ archive' = archive)
        => /\ result' = "false"
           /\ pc' = "idle"
           /\ calls' = calls
           /\ notes' = notes
           /\ pos' = pos]_vars

\* a scan has been done, and a second processMails found nothing new
C3_Witness ==
    /\ result = "false"
    /\ pc = "idle"
    /\ Len(archive) > 0
    /\ cursor = Len(archive)
    /\ persisted = Len(archive)

\* C4, as claimed: a processMails that consumed git log to its end leaves the
\* cursor at head, has written the state to the notes and returns true.
C4_ScanAlwaysPersists ==
    [][(pc = "scan" /\ pos > Len(stream) /\ pc' = "idle")
        => /\ cursorOf(state') = head
           /\ persistedIn(notes') = head
           /\ result' = "true"]_vars

\* C4, amended: it leaves the cursor of the helper at head whatever became of
\* the deliveries, and either writes the state and returns true, or the write
\* throws, the notes are as before and processMails throws.
C4_ScanAdvancesCursor ==
    [][(pc = "scan" /\ pos > Len(stream) /\ pc' = "idle")
        => /\ cursorOf(state') = head
           /\ \/ result' = "true" /\ persistedIn(notes') = head
              \/ result' = "threw" /\ notes' = notes]_vars

\* a scan whose last delivery failed has returned true with the cursor written
C4_Witness ==
    /\ result = "true"
    /\ pc = "idle"
    /\ emitted.exit = "callThrew"
    /\ cursor = Len(archive)
    /\ persisted = Len(archive)

\* a step of the line handler from a state in which the next line completes
\* a mail (the other step such a state has is the death of the process)
HandlerStep == pc' # "none" \/ calls' # calls

\* the references of a mail that mboxHandler makes candidates of
Candidates(references) ==
    SelectSeq(references,
        LAMBDA r : /\ hashKey(r) \in keys
                   /\ hashKey(r) \in DOMAIN notes
                   /\ Field(notes[hashKey(r)], "pullRequestURL") # undefined)

CandidateRecord(reference) == notes[hashKey(reference)]

\* the exits of mboxHandler past the resolution of the target
Resolved == {"recorded", "callThrew", "setThrew", "died"}

\* C5: when the candidates are records of one thread that the filter accepts,
\* the target has an issueCommentId if a candidate has one and an
\* originalCommit if a candidate that is no cover letter has one; for the
\* references a, b, c the call is the reply to a comment.
C5_MergeLosesNothing ==
    [][(/\ Handing
        /\ HandlerStep
        /\ hashKey(handed.messageID) \notin keys
        /\ emitted'.exit \in Resolved
        /\ \A i \in 1..Len(Candidates(handed.references)) :
              LET url == CandidateRecord(Candidates(handed.references)[i])
                            .pullRequestURL
              IN  url = "pr1" /\ (prFilter = undefined \/ prFilter = url))
        => LET cands == Candidates(handed.references)
               t == emitted'.target
           IN  /\ (\E i \in 1..Len(cands) :
                      CandidateRecord(cands[i]).issueCommentId # undefined)
                  => t.issueCommentId # undefined
               /\ (\E i \in 1..Len(cands) :
                      /\ ~matchesPull(cands[i])
                      /\ CandidateRecord(cands[i]).originalCommit # undefined)
                  => t.originalCommit # undefined
               /\ handed.references = <<"a", "b", "c">>
                  => calls'[Len(calls')].fn = "addPRCommentReply"]_vars

C7_StorageFailureAborts ==
    [][/\ (Handing /\ HandlerStep /\ emitted'.exit \in {"getThrew", "setThrew"})
          => (pc' = "idle" /\ result' = "threw")
       /\ (pc = "scan" /\ pos > Len(stream) /\ pc' = "idle"
           /\ persistedIn(notes') # head)
          => result' = "threw"
       /\ (pc = "scan" /\ emitted.exit \in {"getThrew", "setThrew"})
          => persistedIn(notes') = persistedIn(notes)]_vars

\* C8: a call to githubGlue that throws leaves the notes and the keys as they
\* were, the scan goes on with the next line, and a call for a mail is only
\* ever made when the line handler completes that mail from git log.
C8_FailedDeliveryIsAbandoned ==
    [][/\ (Handing /\ HandlerStep /\ calls' # calls
           /\ ~calls'[Len(calls')].ok)
          => /\ notes' = notes
             /\ keys' = keys
             /\ pc' = "scan"
             /\ pos' = pos + 1
       /\ calls' # calls
          => /\ Handing
             /\ Len(calls') = Len(calls) + 1
             /\ SubSeq(calls', 1, Len(calls)) = calls
             /\ calls'[Len(calls')].messageID = handed.messageID]_vars

\* in one scan of two mails the delivery of the first failed, it is not
\* among the keys or in the notes, and the second was delivered and recorded
C8_Witness ==
    /\ pc = "scan"
    /\ cursor = firstRevision
    /\ head = 2
    /\ Len(calls) = 2
    /\ ~calls[1].ok
    /\ calls[2].ok
    /\ calls[1].messageID # calls[2].messageID
    /\ hashKey(calls[1].messageID) \notin keys
    /\ hashKey(calls[1].messageID) \notin DOMAIN notes
    /\ emitted.exit = "recorded"

\* C9: a mail that does not parse causes no call and no write, leaves the
\* keys as they were, and the scan goes on with the next line.
C9_UnparsableMailIsDropped ==
    [][(Completing /\ parseThrows(completed) /\ HandlerStep)
        => /\ calls' = calls
           /\ notes' = notes
           /\ keys' = keys
           /\ pc' = "scan"
           /\ pos' = pos + 1]_vars

\* one scan met a mail without Message-ID, then delivered and recorded the
\* mail after it, and is at the end of git log
C9_Witness ==
    /\ pc = "scan"
    /\ faults = 0
    /\ cursor = firstRevision
    /\ head = 2
    /\ archive[1] = MalformedMail
    /\ emitted.exit = "recorded"
    /\ Len(calls) = 1
    /\ pos > Len(stream)

\* C10: a mail that is not known and none of whose references is a key with
\* a record that has a pullRequestURL causes no call and no write, and its
\* digest is not added to the keys.
C10_UnrelatedMailIsIgnored ==
    [][(/\ Handing
        /\ HandlerStep
        /\ hashKey(handed.messageID) \notin keys
        /\ Candidates(handed.references) = <<>>)
        => /\ calls' = calls
           /\ notes' = notes
           /\ pc' = "scan" => keys' = keys]_vars

\* a mail with an unknown reference and a reference to a key whose record has
\* no pullRequestURL was handled and left alone
C10_Witness ==
    /\ pc = "scan"
    /\ emitted.exit = "unrelated"
    /\ emitted.messageID = "u1"
    /\ hashKey(stateKey) \in keys
    /\ hashKey("zz") \notin keys
    /\ hashKey("u1") \notin keys
    /\ hashKey("u1") \notin DOMAIN notes

\* the notes that are records of mails
MailNotes(n) == {d \in DOMAIN n : d # hashKey(stateKey)}

ScanMails ==
    {parseMBoxMessageIDAndReferences(archive[i]).messageID :
        i \in {j \in (cursor + 1)..head : ~parseThrows(archive[j])}}

\* C12: a mail of the range of the running scan that has a record in the
\* notes is known to the handler of every later mail of that scan that
\* refers to it, and a mail that refers to it alone is resolved to the
\* pullRequestURL and issueCommentId of that record.
C12_RecordedInScanIsKnown ==
    [][(Handing /\ HandlerStep /\ hashKey(handed.messageID) \notin keys)
        => \A i \in 1..Len(handed.references) :
              LET M == handed.references[i]
                  record == notes[hashKey(M)]
              IN  (M \in ScanMails /\ hashKey(M) \in DOMAIN notes)
                     => /\ hashKey(M) \in keys
                        /\ ( /\ Len(handed.references) = 1
                             /\ prFilter \in {undefined, record.pullRequestURL}
                             /\ emitted'.exit \in Resolved )
                           => /\ emitted'.target.pullRequestURL
                                    = record.pullRequestURL
                              /\ emitted'.target.issueCommentId
                                    = record.issueCommentId]_vars

\* one scan over two commits delivered m2 and then m3, which refers to m2
\* alone, as a reply to the comment of m2
C12_Witness ==
    /\ pc = "scan"
    /\ persisted = firstRevision
    /\ faults = 0
    /\ Len(calls) = 2
    /\ calls[1].messageID = "m2" /\ calls[1].ok
    /\ calls[2].messageID = "m3" /\ calls[2].ok
    /\ calls[2].fn = "addPRCommentReply"
    /\ calls[2].arg = calls[1].id
    /\ calls[2].pullRequestURL = calls[1].pullRequestURL
    /\ emitted.exit = "recorded"

\* C13: the cursor in the notes never goes back and changes only when a
\* scan writes the head it resolved; the cursor of a helper never goes back
\* and changes only when a scan of that helper ends, to the head that scan
\* resolved; a helper starts with the cursor in the notes. The revisions of
\* the append-only branch are numbered in their order, so a descendant is a
\* larger number.
C13_CursorNeverRewound ==
    [][/\ persistedIn(notes') >= persisted
       /\ persistedIn(notes') # persisted
             => (pc = "scan" /\ persistedIn(notes') = head
                    /\ head <= Len(archive))
       /\ (pc # "none" /\ pc' # "none")
             => /\ cursorOf(state') >= cursor
                /\ cursorOf(state') # cursor
                      => (pc = "scan" /\ pc' = "idle"
                             /\ cursorOf(state') = head)
       /\ (pc = "none" /\ pc' # "none") => cursorOf(state') = persisted]_vars

\* a scan has advanced both cursors to the first commit, and a second scan,
\* of the second commit, has consumed its range and is about to advance them
C13_Witness ==
    /\ pc = "scan"
    /\ faults = 0
    /\ persisted = 1
    /\ cursor = 1
    /\ head = 2
    /\ pos > Len(stream)

\* C14: no step removes the record of a mail from the notes, changes its
\* pullRequestURL or clears its originalCommit or issueCommentId, and the
\* handler writes a record only under the digest of the mail handed to it,
\* and only when that digest is not among the keys.
C14_RecordsAreKept ==
    [][/\ \A d \in MailNotes(notes) :
             /\ d \in DOMAIN notes'
             /\ notes'[d].pullRequestURL = notes[d].pullRequestURL
             /\ notes[d].originalCommit # undefined
                   => notes'[d].originalCommit # undefined
             /\ notes[d].issueCommentId # undefined
                   => notes'[d].issueCommentId # undefined
       /\ \A d \in MailNotes(notes') :
             (d \notin DOMAIN notes \/ notes'[d] # notes[d])
                => /\ Handing
                   /\ d = hashKey(handed.messageID)
                   /\ d \notin keys]_vars

\* m2 was delivered as a commit comment and recorded by one scan; it arrived
\* again in the range of a later scan, which left its record as it was
C14_Witness ==
    /\ pc = "scan"
    /\ persisted = 1
    /\ emitted.exit = "seen"
    /\ emitted.messageID = "m2"
    /\ Len(calls) = 1
    /\ calls[1].fn = "addPRCommitComment"
    /\ hashKey("m2") \in DOMAIN notes
    /\ notes[hashKey("m2")]
          = MailMetadata("m2", "pr1", calls[1].arg, calls[1].id)

\* the candidates the filter accepts
Accepted(references) ==
    SelectSeq(Candidates(references),
        LAMBDA r : prFilter \in {undefined, CandidateRecord(r).pullRequestURL})

\* C15: the call for a mail goes to the pullRequestURL of the first of its
\* candidates, in the order of the references, whatever the later candidates
\* record.
C15_FirstCandidateGivesURL ==
    [][(/\ Handing
        /\ HandlerStep
        /\ hashKey(handed.messageID) \notin keys
        /\ emitted'.exit \in Resolved)
        => calls'[Len(calls')].pullRequestURL
              = CandidateRecord(Accepted(handed.references)[1])
                   .pullRequestURL]_vars

\* the record of the mail whose handler ran last
emittedRecord == notes[hashKey(emitted.messageID)]

\* C16, as claimed: after a delivery that was recorded, the issueCommentId in
\* the record of the mail is the id its call returned, whatever the call.
C16_ReturnedIdIsRecorded ==
    emitted.exit = "recorded"
       => /\ hashKey(emitted.messageID) \in DOMAIN notes
          /\ emittedRecord.issueCommentId = calls[Len(calls)].id

\* C16, amended: after a reply to a comment or a comment on a commit the
\* issueCommentId in the record of the mail is the id the call returned;
\* after a comment on the pull request the returned id is not used and the
\* record has no issueCommentId.
C16_ReturnedIdIsRecordedUnlessThreadComment ==
    emitted.exit = "recorded"
       => /\ hashKey(emitted.messageID) \in DOMAIN notes
          /\ emittedRecord.messageID = emitted.messageID
          /\ calls[Len(calls)].messageID = emitted.messageID
          /\ calls[Len(calls)].id # undefined
          /\ emittedRecord.issueCommentId
                = IF calls[Len(calls)].fn = "addPRComment" THEN undefined
                  ELSE calls[Len(calls)].id

\* m2 was delivered as a comment on a commit and m3 as a reply to the
\* comment of m2, and both are recorded with the ids their calls returned
C16_Witness ==
    /\ emitted.exit = "recorded"
    /\ {hashKey("m2"), hashKey("m3")} \subseteq DOMAIN notes
    /\ Len(calls) = 2
    /\ calls[1].fn = "addPRCommitComment"
    /\ calls[2].fn = "addPRCommentReply"
    /\ notes[hashKey("m2")].issueCommentId = calls[1].id
    /\ notes[hashKey("m3")].issueCommentId = calls[2].id
    /\ calls[1].id # calls[2].id

\* C17: a processMails that does not find the process gone starts from the
\* cursor in the notes, and scans when master is ahead of that cursor: what a
\* scan did not persist as scanned, the next invocation scans.
C17_NextScanStartsAtPersisted ==
    [][(pc = "idle" /\ pc' # "none" /\ archive' = archive)
        => /\ cursorOf(state') = persisted
           /\ persisted # revParse
                 => (pc' = "scan" /\ head' = revParse /\ result' = "pending")]_vars

\* the key a note is stored for
keyOf(note) ==
    IF "messageID" \in DOMAIN note THEN note.messageID ELSE stateKey

\* the Git blob, header and content, of each key of the model: "blob ", the
\* number of UTF-8 bytes of the key and its newline, NUL, the key, a newline
blobOf(key) ==
    CASE key = "" -> "blob 1\\0\n"
      [] key = "é" -> "blob 3\\0é\n"
      [] key = "m1" -> "blob 3\\0m1\n"
      [] key = "mé" -> "blob 4\\0mé\n"
      [] key = "pull.1" -> "blob 7\\0pull.1\n"
      [] key = "git@vger.kernel.org <-> GitGitGadget" ->
            "blob 37\\0git@vger.kernel.org <-> GitGitGadget\n"

\* C18: every digest that hashKey has computed, for a key that is empty,
\* ASCII or has a character of two bytes, is the SHA-1 of the Git blob of the
\* key and a newline, with the length in UTF-8 bytes; a key has one digest.
C18_HashKeyIsGitBlobDigest ==
    /\ \A d \in DOMAIN notes : d = <<"sha1", blobOf(keyOf(notes[d]))>>
    /\ keys \subseteq
          {<<"sha1", blobOf(k)>> : k \in hashedKeys \cup {"m1", "mé", stateKey}}
    /\ (pc = "scan" /\ emitted.exit = "recorded")
          => <<"sha1", blobOf(emitted.messageID)>> \in keys

\* the mail with the Message-ID of three bytes, a reply to the mail with the
\* key of two bytes, was recorded and is among the keys, and the state was
\* written under the digest of the state key
C18_Witness ==
    /\ pc = "scan"
    /\ emitted.exit = "recorded"
    /\ emitted.messageID = "mé"
    /\ pool = {Mail("mé", <<"é">>)}
    /\ <<"sha1", "blob 4\\0mé\n">> \in keys
    /\ <<"sha1", "blob 37\\0git@vger.kernel.org <-> GitGitGadget\n">> \in keys

\* the lines of the stream that the line handler has consumed
consumed == pos - 1

isHeader(i) == stream[i][1] = "@@ "

\* the lines from..to of the stream without their first characters
stripped(from, to) == [i \in 1..(to - from + 1) |-> stream[from + i - 1][2]]

\* the hunk headers consumed that have a count above zero and whose lines,
\* as many as they count, are not all consumed yet or just are
Collecting ==
    {q \in 1..consumed :
        isHeader(q) /\ stream[q][2] > 0 /\ consumed <= q + stream[q][2]}

\* the hunk header consumed last, 0 when there is none
lastHeader ==
    IF \E q \in 1..consumed : isHeader(q)
    THEN CHOOSE q \in 1..consumed :
            isHeader(q) /\ \A r \in (q + 1)..consumed : ~isHeader(r)
    ELSE 0

frameOf(buf, frame) ==
    IF parseThrows(buf) THEN frame.exit = "parseThrew"
    ELSE /\ frame.messageID = parseMBoxMessageIDAndReferences(buf).messageID
         /\ frame.exit # "parseThrew"

C20_TargetIsOneRecord ==
    [][(Handing /\ HandlerStep /\ calls' # calls)
        => LET last == calls'[Len(calls')]
               cands == Candidates(handed.references)
           IN  \E i \in 1..Len(cands) :
                  LET record == CandidateRecord(cands[i])
                  IN  /\ last.pullRequestURL = record.pullRequestURL
                      /\ last.fn = "addPRCommentReply"
                            => last.arg = record.issueCommentId
                      /\ last.fn = "addPRCommitComment"
                            => /\ last.arg = record.originalCommit
                               /\ ~matchesPull(cands[i])]_vars

\* a mail that refers to a mail of pr1 and then to two mails of pr2, the
\* last with a comment id, was delivered as a reply to that comment on pr2
C20_Witness ==
    /\ pool = {Mail("m1", <<"x", "z", "y">>)}
    /\ emitted.exit = "recorded"
    /\ Len(calls) = 1
    /\ calls[1].fn = "addPRCommentReply"
    /\ calls[1].pullRequestURL = "pr2"
    /\ calls[1].arg = "i0"

====
